---- MODULE Spec2Model ----
(***************************************************************************)
(* Model of the QVM factor pipeline of src/app.py: the financial-statement *)
(* aggregation (process_financial_statements), the cross-sectional         *)
(* normaliser (col_clean), the factor composition (calculate_factors) and  *)
(* the portfolio selection (select_portfolio).                             *)
(*                                                                         *)
(* A numeric cell (a float64 of the data frames) is a tuple:               *)
(*   << >>        NaN, the undefined value                                 *)
(*   << n, d >>   the rational n/d in lowest terms, d > 0                  *)
(*   << 1, 0 >>   +inf       << -1, 0 >>   -inf                            *)
(***************************************************************************)
EXTENDS Integers, Sequences, FiniteSets, TLC

\* ------------------------------------------------------------------ bounds
\* Number of period end dates an account history is drawn from.
MaxQ == 5

\* ------------------------------------------------------- numeric cells
NaN == << >>
PosInf == << 1, 0 >>
NegInf == << -1, 0 >>

IsNaN(x) == x = NaN
IsInf(x) == x = PosInf \/ x = NegInf

Abs(n) == IF n < 0 THEN -n ELSE n

RECURSIVE GCD(_, _)
GCD(a, b) == IF b = 0 THEN a ELSE GCD(b, a % b)

\* n/d in lowest terms with a positive denominator (d # 0).
Rat(n, d) ==
  LET g == GCD(Abs(n), Abs(d))
      s == IF d < 0 THEN -1 ELSE 1
  IN  << (s * n) \div g, (s * d) \div g >>

Int2Cell(n) == << n, 1 >>

\* float64 addition of two finite-or-NaN cells.
FAdd(x, y) ==
  IF IsNaN(x) \/ IsNaN(y) THEN NaN
  ELSE Rat(x[1] * y[2] + y[1] * x[2], x[2] * y[2])

\* float64 multiplication of two finite-or-NaN cells.
FMul(x, y) ==
  IF IsNaN(x) \/ IsNaN(y) THEN NaN
  ELSE Rat(x[1] * y[1], x[2] * y[2])

\* float64 division of two finite-or-NaN cells, as numpy/pandas perform it:
\* x/0 is +inf or -inf by the sign of x, 0/0 is NaN, NaN propagates.
FDiv(x, y) ==
  IF IsNaN(x) \/ IsNaN(y) THEN NaN
  ELSE IF y[1] = 0
       THEN IF x[1] = 0 THEN NaN ELSE IF x[1] > 0 THEN PosInf ELSE NegInf
       ELSE Rat(x[1] * y[2], x[2] * y[1])

\* x < y on finite cells.
FLess(x, y) == x[1] * y[2] < y[1] * x[2]


\* ============================================================ state
VARIABLES
  fs_list,      \* process_financial_statements: the rows of fs_df
  fs_pc,        \* "input" before the call, then "done", "empty" or "KeyError"
  fs_pivot,     \* the returned fs_list_pivot: code -> column -> cell
  ticker_list,  \* raw_data['ticker_list']: the listed codes
  sector_list,  \* raw_data['sector_list']: CMP_CD -> SEC_NM_KOR
  price_list,   \* raw_data['price_list']: code -> closing prices by date
  value_pivot,  \* process_valuation_data's result: column -> code -> cell
  k_ratio_df,   \* calculate_k_ratio's result: code -> cell
  mg_pc,        \* merge_all_data: "idle", "input", "done" or "empty"
  data_merged,  \* the table merge_all_data returned (the caller's object)
  cf_pc,        \* calculate_factors: "input", "done" or "error"
  z_scores,     \* the z-score frames of calculate_factors, by column
  data_with_factors, \* the table calculate_factors returned
  sp_pc,        \* select_portfolio: "idle", "input", "done" or "no_factors"
  top_n_stocks, \* the top_n_stocks argument of the call
  normalized_weights, \* the weights the call used, by factor column
  final_portfolio_df, \* the table select_portfolio returned
  invest,       \* its invest column: code -> "Y" or "N"
  cc_series,    \* col_clean: the df_series argument, code -> cell
  cc_asc,       \* col_clean: the asc argument
  cc_pc,        \* col_clean: "idle", "input", "early" or "done"
  cc_result,    \* the series col_clean returned
  kr_pc,        \* calculate_k_ratio: "idle", "input", "done", "empty" or
                \* "ValueError"
  fill_method,  \* the default fill_method of pct_change in the installed
                \* pandas: "pad" or "none"
  value_list,   \* raw_data['value_list']: the rows of kor_value
  vp_pc,        \* process_valuation_data: "idle", "input", "done" or "empty"
  run_pc        \* the run block: "idle", "start", the stage it waits for,
                \* "shown", "stopped" (st.stop) or "raised"

fsVars == << fs_list, fs_pc, fs_pivot >>
rawVars == << ticker_list, sector_list, price_list, value_pivot, k_ratio_df >>
cfVars == << mg_pc, data_merged, cf_pc, z_scores, data_with_factors >>
spVars == << sp_pc, top_n_stocks, normalized_weights, final_portfolio_df,
            invest >>
ccVars == << cc_series, cc_asc, cc_pc, cc_result >>
krVars == << kr_pc, fill_method >>
runVars == << value_list, vp_pc, run_pc >>
auxVars == << ccVars, krVars, runVars >>
vars == << fsVars, rawVars, cfVars, spVars, auxVars >>

\* ===================================== 3. process_financial_statements
\* kor_fs accounts: net_income = 당기순이익, gross_profit = 매출총이익,
\* op_cash_flow = 영업활동으로인한현금흐름, assets = 자산, equity = 자본.
FlowAccounts == {"net_income", "gross_profit", "op_cash_flow"}
StockAccounts == {"assets", "equity"}
Accounts == FlowAccounts \cup StockAccounts

\* rolling(window=4, min_periods=4)
Window == 4

Dates == 1..MaxQ

\* The rows of one (종목코드, 계정) group of the table.
FsGroup(fs, c, a) == {r \in fs : r.code = c /\ r.account = a}

\* sort_values(['종목코드', '계정', '기준일']) restricted to one group: the
\* group's rows by ascending 기준일.
RECURSIVE SortByDate(_)
SortByDate(G) ==
  IF G = {} THEN << >>
  ELSE LET first == CHOOSE r \in G : \A q \in G : r.date <= q.date
       IN  << first >> \o SortByDate(G \ {first})

fs_list_sorted(fs, c, a) == SortByDate(FsGroup(fs, c, a))

RECURSIVE SumVals(_, _, _)
SumVals(rows, lo, hi) ==
  IF lo > hi THEN 0 ELSE rows[lo].val + SumVals(rows, lo + 1, hi)

\* Variant of ttm_temp with min_periods=1: a short window is summed as is.
ttm_temp_min1(rows) ==
  [i \in 1..Len(rows) |->
     Int2Cell(SumVals(rows, IF i >= Window THEN i - Window + 1 ELSE 1, i))]

\* groupby(['종목코드','계정'])['값'].rolling(window=4, min_periods=4).sum():
\* row i of the group gets the sum of rows i-3..i, NaN for the first 3 rows.
ttm_temp(rows) ==
  [i \in 1..Len(rows) |->
     IF i >= Window THEN Int2Cell(SumVals(rows, i - Window + 1, i)) ELSE NaN]

\* np.where(계정 in ['자산','자본'], ttm_temp / 4, ttm_temp)
ttm(a, rows) ==
  [i \in 1..Len(rows) |->
     IF a \in StockAccounts THEN FDiv(ttm_temp(rows)[i], Int2Cell(Window))
     ELSE ttm_temp(rows)[i]]

\* groupby(['종목코드','계정']).tail(1): the ttm of the group's last row.
\* pivot(index='종목코드', columns='계정', values='ttm') leaves NaN where a
\* code has no row of the account.
fs_list_clean(fs, c, a) ==
  LET rows == fs_list_sorted(fs, c, a)
  IN  IF Len(rows) = 0 THEN NaN ELSE ttm(a, rows)[Len(rows)]

PivotCodes(fs) == {r.code : r \in fs}
PivotColumns(fs) == {r.account : r \in fs}

\* fs_list_pivot with the ROE, GPA and CFO columns added.
fs_list_pivot(fs) ==
  [c \in PivotCodes(fs) |->
     LET t == [a \in Accounts |-> fs_list_clean(fs, c, a)]
     IN  [net_income |-> t["net_income"],
          gross_profit |-> t["gross_profit"],
          op_cash_flow |-> t["op_cash_flow"],
          assets |-> t["assets"],
          equity |-> t["equity"],
          ROE |-> FDiv(t["net_income"], t["equity"]),
          GPA |-> FDiv(t["gross_profit"], t["assets"]),
          CFO |-> FDiv(t["op_cash_flow"], t["assets"])]]

EmptyPivot == [c \in {} |-> NaN]

\* The whole call: an empty table returns an empty frame; a table in which
\* one of the five accounts never occurs has no such pivot column and the
\* ratio lines raise KeyError; otherwise the pivot with the three ratios.
process_financial_statements ==
  /\ fs_pc = "input"
  /\ IF fs_list = {}
     THEN fs_pc' = "empty" /\ fs_pivot' = EmptyPivot
     ELSE IF PivotColumns(fs_list) # Accounts
          THEN fs_pc' = "KeyError" /\ fs_pivot' = EmptyPivot
          ELSE fs_pc' = "done" /\ fs_pivot' = fs_list_pivot(fs_list)
  /\ UNCHANGED << fs_list, rawVars, cfVars, spVars, auxVars >>

\* ------------------------------------------------ inputs of the aggregator
Vals == {-1, 1}

Const(D, v) == [d \in D |-> v]

\* A history of one (code, account) pair: period end date -> reported value;
\* any set of period ends, the values nonzero or all zero.
HistAll ==
  UNION {[D -> Vals] \cup {Const(D, 0)} : D \in SUBSET Dates}
Cancel(D) == [d \in D |-> IF d % 2 = 0 THEN 1 ELSE -1]

HistDen == {Const({}, 0), Const(1..3, 1), Const(1..4, 0), Const(1..4, 1),
            Cancel(1..4), Const(2..MaxQ, 1)}
HistFew == {Const(1..3, 1)}
HistB == Const(1..MaxQ, 1)

Rows(c, a, h) ==
  {[code |-> c, account |-> a, date |-> d, val |-> h[d]] : d \in DOMAIN h}

DenOf(f) == IF f = "net_income" THEN "equity" ELSE "assets"

\* Security A has one flow account with an arbitrary history, the
\* denominator of that account's ratio drawn from HistDen and its other
\* accounts from HistFew; security B reports every account.
FsInputs ==
  {  Rows("A", f, h) \cup Rows("A", DenOf(f), hd)
       \cup UNION {Rows("A", a, ho) : a \in Accounts \ {f, DenOf(f)}}
       \cup UNION {Rows("B", a, HistB) : a \in (IF b THEN Accounts ELSE {})}
   : f \in FlowAccounts, h \in HistAll, hd \in HistDen, ho \in HistFew,
     b \in BOOLEAN }
  \cup {{}}

\* A data frame: its index (codes), the SEC_NM_KOR column and the numeric
\* columns by name.
EmptyFrame == [index |-> {}, sec |-> [c \in {} |-> ""], col |-> [n \in {} |-> NaN]]

IdleRaw ==
  /\ ticker_list = {}
  /\ sector_list = [c \in {} |-> ""]
  /\ price_list = [c \in {} |-> << >>]
  /\ value_pivot = [n \in {} |-> NaN]
  /\ k_ratio_df = [c \in {} |-> NaN]

IdleCF ==
  /\ mg_pc = "idle"
  /\ data_merged = EmptyFrame
  /\ cf_pc = "idle"
  /\ z_scores = [n \in {} |-> NaN]
  /\ data_with_factors = EmptyFrame

IdleSP ==
  /\ sp_pc = "idle"
  /\ top_n_stocks = 0
  /\ normalized_weights = [n \in {} |-> NaN]
  /\ final_portfolio_df = EmptyFrame
  /\ invest = [c \in {} |-> ""]

IdleCC ==
  /\ cc_series = [c \in {} |-> NaN]
  /\ cc_asc = FALSE
  /\ cc_pc = "idle"
  /\ cc_result = [c \in {} |-> NaN]

IdleKR ==
  /\ kr_pc = "idle"
  /\ fill_method = "pad"

IdleRun ==
  /\ value_list = {}
  /\ vp_pc = "idle"
  /\ run_pc = "idle"

IdleAux == IdleCC /\ IdleKR /\ IdleRun

InitFS ==
  /\ IdleAux
  /\ fs_list \in FsInputs
  /\ fs_pc = "input"
  /\ fs_pivot = EmptyPivot
  /\ IdleRaw
  /\ IdleCF
  /\ IdleSP

NextFS == process_financial_statements

SpecFS == InitFS /\ [][NextFS]_vars

\* ============================================================ 4. col_clean
\* A Series is a function from its index (security codes) to cells.

\* The defined values of a series in ascending order.
RECURSIVE SortedVals(_, _)
SortedVals(series, idx) ==
  IF idx = {} THEN << >>
  ELSE LET m == CHOOSE i \in idx : \A j \in idx : ~FLess(series[j], series[i])
       IN  << series[m] >> \o SortedVals(series, idx \ {m})

NotNull(series) == {i \in DOMAIN series : ~IsNaN(series[i])}

\* Series.quantile(q), q = << a, b >>: NaN skipped, linear interpolation
\* between the order statistics around position (n-1)*q.
Interpolate(v, q) ==
  LET n == Len(v)
      pos == (n - 1) * q[1]
      lo == pos \div q[2]
      fr == pos % q[2]
  IN  IF n = 0 THEN NaN
      ELSE IF fr = 0 THEN v[lo + 1]
      ELSE FAdd(v[lo + 1],
                FMul(FAdd(v[lo + 2], FMul(Int2Cell(-1), v[lo + 1])),
                     Rat(fr, q[2])))

quantile(series, q) == Interpolate(SortedVals(series, NotNull(series)), q)

\* df_series[(df_series > q_low) & (df_series < q_hi)]: the entries strictly
\* between the two quantiles; a NaN entry compares false and is dropped.
\* Variant of Between with the two comparisons non-strict.
BetweenInclusive(series, q_low, q_hi) ==
  [i \in {j \in NotNull(series) :
            ~FLess(series[j], q_low) /\ ~FLess(q_hi, series[j])} |-> series[i]]

Between(series, q_low, q_hi) ==
  [i \in {j \in NotNull(series) :
            FLess(q_low, series[j]) /\ FLess(series[j], q_hi)} |-> series[i]]

df_trim(series, cutoff) ==
  Between(series, quantile(series, cutoff),
          quantile(series, Rat(cutoff[2] - cutoff[1], cutoff[2])))

\* Series.rank(ascending=..., na_option='keep'), default method 'average':
\* 1 + the number of entries ranked before, tied entries sharing the mean
\* of their positions.
rank(series, ascending) ==
  [i \in DOMAIN series |->
     LET before == {j \in DOMAIN series :
                      IF ascending THEN FLess(series[j], series[i])
                      ELSE FLess(series[i], series[j])}
         tied == {j \in DOMAIN series : series[j] = series[i]}
     IN  Rat(2 * Cardinality(before) + Cardinality(tied) + 1, 2)]

RECURSIVE FSum(_, _)
FSum(a, idx) ==
  IF idx = {} THEN Int2Cell(0)
  ELSE LET i == CHOOSE i \in idx : TRUE IN FAdd(a[i], FSum(a, idx \ {i}))

\* scipy.stats.zscore(a, nan_policy='omit') of an array without NaN:
\* (a - mean) / std with the population standard deviation; a constant
\* array (std = 0) gives NaN.  With n = len(a), S = sum(a), Q = sum(a*a) the
\* score of a[i] is (n*a[i] - S) / sqrt(n*Q - S*S), kept as the 4-tuple
\* << numerator n, numerator d, radicand n, radicand d >>.
zscore(a) ==
  LET idx == DOMAIN a
      n == Int2Cell(Cardinality(idx))
      S == FSum(a, idx)
      Q == FSum([i \in idx |-> FMul(a[i], a[i])], idx)
      R == FAdd(FMul(n, Q), FMul(Int2Cell(-1), FMul(S, S)))
  IN  [i \in idx |->
         IF R[1] = 0 THEN NaN
         ELSE LET num == FAdd(FMul(n, a[i]), FMul(Int2Cell(-1), S))
              IN  << num[1], num[2], R[1], R[2] >>]

\* Series.apply(zscore, nan_policy='omit'): Series.apply calls a Python
\* function once per element, so zscore receives each rank alone, as an
\* array of one observation.
SeriesApply(series) ==
  [i \in DOMAIN series |-> zscore(<< series[i] >>)[1]]

\* col_clean(df_series, cutoff, asc): the result is indexed by the retained
\* entries only, or by the whole index on the early return.
col_clean(df_series, cutoff, asc) ==
  IF DOMAIN df_series = {} \/ NotNull(df_series) = {}
  THEN [i \in DOMAIN df_series |-> NaN]
  ELSE SeriesApply(rank(df_trim(df_series, cutoff), asc))

\* cutoff=0.01 at every call of col_clean.
Cutoff == << 1, 100 >>

\* One call col_clean(cc_series, 0.01, cc_asc) on its own.
col_clean_call ==
  /\ cc_pc = "input"
  /\ cc_pc' = IF DOMAIN cc_series = {} \/ NotNull(cc_series) = {}
              THEN "early" ELSE "done"
  /\ cc_result' = col_clean(cc_series, Cutoff, cc_asc)
  /\ UNCHANGED << fsVars, rawVars, cfVars, spVars, cc_series, cc_asc, krVars,
                  runVars >>


\* ================================================ process_valuation_data
\* value_list holds one row [code, metric, val] per security and 지표.
\* value_list_clean.pivot(index='종목코드', columns='지표', values='값') after
\* the non-positive values are replaced by NaN: column -> code -> cell.
value_pivot_of(rows) ==
  [n \in {r.metric : r \in rows} |->
     [c \in {r.code : r \in rows} |->
        IF \E r \in rows : r.code = c /\ r.metric = n /\ r.val > 0
        THEN Int2Cell((CHOOSE r \in rows : r.code = c /\ r.metric = n).val)
        ELSE NaN]]

process_valuation_data ==
  /\ vp_pc = "input"
  /\ IF value_list = {}
     THEN vp_pc' = "empty" /\ value_pivot' = [n \in {} |-> NaN]
     ELSE vp_pc' = "done" /\ value_pivot' = value_pivot_of(value_list)
  /\ UNCHANGED << fsVars, ticker_list, sector_list, price_list, k_ratio_df,
                  cfVars, spVars, ccVars, krVars, value_list, run_pc >>

\* ==================================================== calculate_k_ratio
\* price_list maps a code to its rows of kor_price in date order, the row of
\* date d holding the close at position d; NoClose is a row whose 종가 is
\* NULL, and a code with fewer rows has no row for the later dates.
NoClose == -1

Max(a, b) == IF a > b THEN a ELSE b

RECURSIVE MaxLen(_, _)
MaxLen(prices, codes) ==
  IF codes = {} THEN 0
  ELSE LET c == CHOOSE c \in codes : TRUE
       IN  Max(Len(prices[c]), MaxLen(prices, codes \ {c}))

\* The number of rows of price_df.pivot(index='날짜', ...): the dates.
PivotDates(prices) == MaxLen(prices, DOMAIN prices)

\* Its columns after dropna(axis=1, how='all').
PriceColumns(prices) ==
  {c \in DOMAIN prices : \E d \in 1..Len(prices[c]) : prices[c][d] # NoClose}

\* One column of price_pivot over the N dates.
PriceColumn(series, N) ==
  [d \in 1..N |-> IF d <= Len(series) THEN series[d] ELSE NoClose]

\* fill_method='pad': a missing close takes the last close before it.
RECURSIVE ffill(_, _)
ffill(col, d) ==
  IF d = 0 THEN NoClose
  ELSE IF col[d] # NoClose THEN col[d] ELSE ffill(col, d - 1)

Filled(col, fill) ==
  [d \in 1..Len(col) |-> IF fill = "pad" THEN ffill(col, d) ELSE col[d]]

\* log2 of a positive close of the model (closes are 0, 1 or 2); the
\* t-statistic of the regression does not change when every cumulative
\* log-return is divided by ln 2.
Log2(p) == IF p = 1 THEN 0 ELSE 1

\* np.log(1 + pct_change) of the row of date d, d >= 2, as a cell: NaN when
\* a close is missing or both closes are 0, +inf after a close of 0, -inf
\* at a close of 0.
LogReturn(f, d) ==
  IF f[d - 1] = NoClose \/ f[d] = NoClose THEN NaN
  ELSE IF f[d - 1] = 0 THEN IF f[d] = 0 THEN NaN ELSE PosInf
  ELSE IF f[d] = 0 THEN NegInf
  ELSE Int2Cell(Log2(f[d]) - Log2(f[d - 1]))

\* float64 addition with infinite operands.
AddInf(x, y) ==
  IF IsNaN(x) \/ IsNaN(y) THEN NaN
  ELSE IF IsInf(x) THEN IF IsInf(y) /\ y # x THEN NaN ELSE x
  ELSE IF IsInf(y) THEN y
  ELSE FAdd(x, y)

\* The running sum of cumsum() before row k (skipna: a NaN row is passed
\* over, a NaN produced by the addition stays).
RECURSIVE RunningSum(_, _)
RunningSum(r, k) ==
  IF k = 0 THEN Int2Cell(0)
  ELSE IF IsNaN(r[k]) THEN RunningSum(r, k - 1)
  ELSE AddInf(RunningSum(r, k - 1), r[k])

\* ret_cum[[ticker]].dropna(): the defined cumulative log-returns of one
\* column, rows 2..N of the pivot (iloc[1:]).
RetCum(col, fill) ==
  LET f == Filled(col, fill)
      r == [k \in 1..(Len(col) - 1) |-> LogReturn(f, k + 1)]
      cum == [k \in 1..Len(r) |->
                IF IsNaN(r[k]) THEN NaN ELSE RunningSum(r, k)]
  IN  SelectSeq(cum, LAMBDA v : ~IsNaN(v))

RECURSIVE SeqSum(_, _)
SeqSum(f, k) == IF k = 0 THEN 0 ELSE f[k] + SeqSum(f, k - 1)

\* A t-statistic that is 0, and one that rounding alone decides.
ZeroT == << 0, 1, 1, 1 >>
AnyT == << 0, 1, 0, 1 >>

\* The values float(reg.tvalues[1]) can take for sm.OLS(y, current_x).fit()
\* with current_x = [1, 0], [1, 1], ...: the slope over its standard error.
\* With n = len(y), Sxy, Sxx, Syy the n-fold centred sums and
\* D = Sxx*Syy - Sxy*Sxy (n*n times the residual sum of squares times Sxx)
\* the statistic is Sxy / sqrt(D / (n - 2)), kept like a z-score as
\* << Sxy, 1, radicand n, radicand d >>; a radicand of 0 stands for a value
\* that is infinite or beyond every other.  An infinite y makes the
\* regression raise or yield NaN: the except branch and the NaN agree.  A y
\* of zeros, or of one row, leaves residuals of exactly 0 and 0/0 = NaN.
\* Two rows leave 0 residual degrees of freedom: NaN, or 0 when rounding
\* leaves a residual (slope / inf).  A constant nonzero y of 3 or more rows
\* has slope and standard error 0 up to rounding: NaN or AnyT.
OLSTValues(y) ==
  LET n == Len(y)
      SX == SeqSum([k \in 1..n |-> k - 1], n)
      SXX == SeqSum([k \in 1..n |-> (k - 1) * (k - 1)], n)
      SY == SeqSum([k \in 1..n |-> y[k][1]], n)
      SYY == SeqSum([k \in 1..n |-> y[k][1] * y[k][1]], n)
      SXY == SeqSum([k \in 1..n |-> (k - 1) * y[k][1]], n)
      Sxy == n * SXY - SX * SY
      D == (n * SXX - SX * SX) * (n * SYY - SY * SY) - Sxy * Sxy
  IN  IF \E k \in 1..n : IsInf(y[k]) THEN {NaN}
      ELSE IF n = 1 \/ \A k \in 1..n : y[k][1] = 0 THEN {NaN}
      ELSE IF n = 2 THEN {NaN, ZeroT}
      ELSE IF D = 0 /\ Sxy = 0 THEN {NaN, AnyT}
      ELSE IF D = 0 THEN {<< IF Sxy > 0 THEN 1 ELSE -1, 1, 0, 1 >>}
      ELSE {<< Sxy, 1, Rat(D, n - 2)[1], Rat(D, n - 2)[2] >>}

\* One pass of the loop body: the values k_ratio[ticker] can get.
KRatioOf(y) == IF Len(y) = 0 THEN {NaN} ELSE OLSTValues(y)

\* tickers_in_price: the listed codes that are columns of price_pivot.
tickers_in_price(tickers, prices) == tickers \cap PriceColumns(prices)

\* The k_ratio dicts the loop can build.
KRatioDicts(tickers, prices, fill) ==
  LET N == PivotDates(prices)
      out == [c \in tickers_in_price(tickers, prices) |->
                KRatioOf(RetCum(PriceColumn(prices[c], N), fill))]
  IN  {k \in [DOMAIN out -> UNION {out[c] : c \in DOMAIN out}] :
         \A c \in DOMAIN out : k[c] \in out[c]}

\* The whole call.  It returns an empty frame for an empty input table or
\* an empty pivot.  With a single date ret_cum has no rows and
\* sm.add_constant takes np.ptp of a zero-size array, which raises; a
\* release without that test goes on with an empty x.  With no listed code
\* among the columns the 1-column frame of the empty dict cannot take the
\* two column names.
calculate_k_ratio ==
  /\ kr_pc = "input"
  /\ IF \/ \A c \in DOMAIN price_list : Len(price_list[c]) = 0
        \/ ticker_list = {}
        \/ PriceColumns(price_list) = {}
     THEN kr_pc' = "empty" /\ k_ratio_df' = [c \in {} |-> NaN]
     ELSE \/ /\ PivotDates(price_list) = 1
             /\ kr_pc' = "ValueError"
             /\ k_ratio_df' = [c \in {} |-> NaN]
          \/ /\ tickers_in_price(ticker_list, price_list) = {}
             /\ kr_pc' = "ValueError"
             /\ k_ratio_df' = [c \in {} |-> NaN]
          \/ /\ tickers_in_price(ticker_list, price_list) # {}
             /\ kr_pc' = "done"
             /\ k_ratio_df' \in
                  KRatioDicts(ticker_list, price_list, fill_method)
  /\ UNCHANGED << fsVars, ticker_list, sector_list, price_list, value_pivot,
                  cfVars, spVars, ccVars, fill_method, runVars >>

\* ======================================================= merge_all_data
\* price_pivot_for_ret[col].dropna()
dropna(series) == SelectSeq(series, LAMBDA p : p # NoClose)

\* (series.iloc[-1] / series.iloc[0]) - 1 with at least 2 prices, else NaN.
Return12MOf(series) ==
  IF Len(series) >= 2
  THEN FAdd(FDiv(Int2Cell(series[Len(series)]), Int2Cell(series[1])),
            Int2Cell(-1))
  ELSE NaN

Return12M(series) == Return12MOf(dropna(series))

\* ret_list: one 12M row per code of price_list.
ret_list(prices) == [c \in DOMAIN prices |-> Return12M(prices[c])]

\* Left merge of a code-indexed series into the table's index.
LeftMerge(index, series) ==
  [c \in index |-> IF c \in DOMAIN series THEN series[c] ELSE NaN]

NaNColumn(index) == [c \in index |-> NaN]

\* The sector step: a left merge with sector_list, a code without a sector
\* row getting '기타'; every code gets '기타' when sector_list is empty.
DefaultSector == "ETC"

SEC_NM_KOR(index, sectors) ==
  [c \in index |-> IF c \in DOMAIN sectors THEN sectors[c] ELSE DefaultSector]

QualityCols == {"ROE", "GPA", "CFO"}

\* The numeric columns of data_bind after all merges.
MergedColumns(index, fsp, vp, prices, kr) ==
  LET fsCols == IF DOMAIN fsp = {} THEN {} ELSE QualityCols
      names == fsCols \cup DOMAIN vp \cup {"M12", "K_ratio"}
  IN  [n \in names |->
         IF n \in QualityCols
         THEN LeftMerge(index, [c \in DOMAIN fsp |-> fsp[c][n]])
         ELSE IF n = "M12"
         THEN IF DOMAIN prices = {} THEN NaNColumn(index)
              ELSE LeftMerge(index, ret_list(prices))
         ELSE IF n = "K_ratio"
         THEN IF DOMAIN kr = {} THEN NaNColumn(index)
              ELSE LeftMerge(index, kr)
         ELSE LeftMerge(index, vp[n])]

merge_all_data ==
  /\ mg_pc = "input"
  /\ IF ticker_list = {}
     THEN mg_pc' = "empty" /\ data_merged' = EmptyFrame
     ELSE /\ mg_pc' = "done"
          /\ data_merged' =
               [index |-> ticker_list,
                sec |-> SEC_NM_KOR(ticker_list, sector_list),
                col |-> MergedColumns(ticker_list, fs_pivot, value_pivot,
                                      price_list, k_ratio_df)]
  /\ cf_pc' = "input"
  /\ UNCHANGED << fsVars, rawVars, z_scores, data_with_factors, spVars, auxVars >>

\* ==================================================== calculate_factors
ValueAscCols == {"PBR", "PCR", "PER", "PSR"}
ValueDescCols == {"DY"}
MomentumCols == {"M12", "K_ratio"}

\* A frame with every cell computed: TLC evaluates a function expression
\* anew on each application, and compares it as an explicit table.
Table(f) == IF f = f THEN f ELSE f

\* groupby('SEC_NM_KOR'): the codes of one sector group.
GroupIndex(df, g) == {c \in df.index : df.sec[c] = g}

\* Variant of GroupColumn without the grouping: the whole column.
GroupColumnAll(df, n, g) == df.col[n]

\* The column n of one sector group, as handed to col_clean.
GroupColumn(df, n, g) == [c \in GroupIndex(df, g) |-> df.col[n][c]]

\* data_bind_group[cols].apply(lambda x: x.apply(lambda col:
\*   col_clean(col, 0.01, asc))): column n scored group by group; a code
\* that col_clean's result does not index has no score (NaN).
Concat(df, scored) ==
  [c \in df.index |->
     IF c \in DOMAIN scored[df.sec[c]] THEN scored[df.sec[c]][c] ELSE NaN]

GroupApply(df, n, asc) ==
  Concat(df, Table([g \in {df.sec[c] : c \in df.index} |->
                      col_clean(GroupColumn(df, n, g), Cutoff, asc)]))

\* Variant of RowSum with skipna=True: NaN is skipped, an all-NaN row sums
\* to 0.
RowSumSkipna(row) ==
  FSum([n \in DOMAIN row |-> IF IsNaN(row[n]) THEN Int2Cell(0) ELSE row[n]],
       DOMAIN row)

\* DataFrame.sum(axis=1, skipna=False) of one row: NaN as soon as one cell
\* of the row is NaN.
RowSum(row) ==
  IF \E n \in DOMAIN row : IsNaN(row[n]) THEN NaN ELSE FSum(row, DOMAIN row)

\* z.sum(axis=1, skipna=False).to_frame(name), left-merged into data_df.
FactorSum(index, z, names) ==
  [c \in index |-> RowSum([n \in names |-> z[n][c]])]

AscOf(n) == n \in ValueAscCols

\* The columns calculate_factors scores: the quality and the momentum
\* columns only when all of them exist, the value columns that exist.
ScoredCols(df) ==
  LET have == DOMAIN df.col
  IN  (IF QualityCols \subseteq have THEN QualityCols ELSE {})
      \cup ((ValueAscCols \cup ValueDescCols) \cap have)
      \cup (IF MomentumCols \subseteq have THEN MomentumCols ELSE {})

ZFrames(df) == Table([n \in ScoredCols(df) |-> GroupApply(df, n, AscOf(n))])

z_quality(df, z) ==
  IF QualityCols \subseteq DOMAIN df.col
  THEN FactorSum(df.index, z, QualityCols)
  ELSE NaNColumn(df.index)

z_value(df, z) ==
  LET existing == (ValueAscCols \cup ValueDescCols) \cap DOMAIN df.col
  IN  IF existing # {} THEN FactorSum(df.index, z, existing)
      ELSE NaNColumn(df.index)

z_momentum(df, z) ==
  IF MomentumCols \subseteq DOMAIN df.col
  THEN FactorSum(df.index, z, MomentumCols)
  ELSE NaNColumn(df.index)

AddColumn(df, name, series) ==
  [df EXCEPT !.col = [n \in DOMAIN df.col \cup {name} |->
                        IF n = name THEN series ELSE df.col[n]]]

\* The table calculate_factors returns for the z-score frames z: data_df
\* with the three factor columns.
WithFactors(df, z) ==
  AddColumn(AddColumn(AddColumn(df,
    "z_quality", z_quality(df, z)),
    "z_value", z_value(df, z)),
    "z_momentum", z_momentum(df, z))

\* The caller's table after the call.  Each factor is added by a merge,
\* which builds a new table, or, when its columns are missing, by an
\* assignment into data_df: as long as no merge has rebound data_df, that
\* assignment writes into the caller's table.
CallerTableAfter(df, z) ==
  LET have == DOMAIN df.col
      qMerged == QualityCols \subseteq have
      vMerged == (ValueAscCols \cup ValueDescCols) \cap have # {}
      mMerged == MomentumCols \subseteq have
      in1 == IF qMerged THEN df
             ELSE AddColumn(df, "z_quality", z_quality(df, z))
      in2 == IF qMerged \/ vMerged THEN in1
             ELSE AddColumn(in1, "z_value", z_value(df, z))
  IN  IF qMerged \/ vMerged \/ mMerged THEN in2
      ELSE AddColumn(in2, "z_momentum", z_momentum(df, z))

\* The whole call.
calculate_factors ==
  /\ cf_pc = "input"
  /\ IF data_merged.index = {}
     THEN /\ cf_pc' = "error"
          /\ z_scores' = z_scores
          /\ data_with_factors' = data_merged
          /\ data_merged' = data_merged
     ELSE \E z \in {ZFrames(data_merged)} :
              /\ cf_pc' = "done"
              /\ z_scores' = z
              /\ data_merged' = CallerTableAfter(data_merged, z)
              /\ data_with_factors' = WithFactors(data_merged, z)
  /\ UNCHANGED << fsVars, rawVars, mg_pc, spVars, auxVars >>

\* The summation step of calculate_factors on its own: the three
\* z.sum(axis=1, skipna=False) and their merges, applied to given z-score
\* frames.
sum_factors ==
  /\ cf_pc = "scored"
  /\ cf_pc' = "done"
  /\ data_merged' = CallerTableAfter(data_merged, z_scores)
  /\ data_with_factors' = WithFactors(data_merged, z_scores)
  /\ UNCHANGED << fsVars, rawVars, mg_pc, z_scores, spVars, auxVars >>

\* --------------------------------------- inputs of merge/calculate_factors
Universe == {"A", "B", "C", "D", "E"}

\* Largest raw metric value of the enumerated columns; 0 stands for "no
\* value for this code".
MaxVal == 3

\* The value set [1,2,3,4,5] over the five codes.
Ladder == [c \in Universe |->
             IF c = "A" THEN 1 ELSE IF c = "B" THEN 2 ELSE IF c = "C" THEN 3
             ELSE IF c = "D" THEN 4 ELSE 5]

BaseVectors == [Universe -> 0..MaxVal] \cup {Ladder}

Cell(v) == IF v = 0 THEN NaN ELSE Int2Cell(v)

PivotRow(roe, gpa, cfo) ==
  [net_income |-> Int2Cell(roe), gross_profit |-> Int2Cell(gpa),
   op_cash_flow |-> Int2Cell(cfo), assets |-> Int2Cell(1),
   equity |-> Int2Cell(1), ROE |-> Int2Cell(roe), GPA |-> Int2Cell(gpa),
   CFO |-> Int2Cell(cfo)]

Sectors1 == [c \in Universe |-> "IT"]
Sectors2 == [c \in {"A", "B", "C", "D"} |-> IF c = "D" THEN "BIO" ELSE "IT"]
Sectors3 == [c \in {} |-> ""]
Sectors4 == [c \in Universe |-> IF c \in {"A", "B"} THEN "IT" ELSE "BIO"]
Sectors5 == [c \in {"A", "B", "C"} |-> "IT"]

Scenarios ==
  { [tickers |-> TRUE, sectors |-> Sectors1, fs |-> TRUE,
     vcols |-> ValueAscCols \cup ValueDescCols, prices |-> TRUE, k |-> TRUE],
    [tickers |-> TRUE, sectors |-> Sectors2, fs |-> TRUE,
     vcols |-> {"PBR", "DY"}, prices |-> TRUE, k |-> TRUE],
    [tickers |-> TRUE, sectors |-> Sectors3, fs |-> FALSE,
     vcols |-> {}, prices |-> FALSE, k |-> FALSE],
    [tickers |-> TRUE, sectors |-> Sectors4, fs |-> TRUE,
     vcols |-> {"PCR", "PER", "PSR"}, prices |-> TRUE, k |-> FALSE],
    [tickers |-> TRUE, sectors |-> Sectors5, fs |-> FALSE,
     vcols |-> {"PBR"}, prices |-> TRUE, k |-> TRUE],
    [tickers |-> FALSE, sectors |-> Sectors1, fs |-> TRUE,
     vcols |-> {"PBR"}, prices |-> TRUE, k |-> TRUE] }

InitCF ==
  /\ IdleAux
  /\ fs_list = {}
  /\ fs_pc = "idle"
  /\ \E sc \in Scenarios, v \in BaseVectors :
       LET have == {c \in Universe : v[c] # 0}
       IN  /\ ticker_list = IF sc.tickers THEN Universe ELSE {}
           /\ sector_list = sc.sectors
           /\ fs_pivot = IF sc.fs
                         THEN [c \in have |->
                                 PivotRow(v[c], 6 - v[c], v[c])]
                         ELSE EmptyPivot
           /\ value_pivot = [n \in sc.vcols |-> [c \in have |-> Int2Cell(v[c])]]
           /\ price_list = IF sc.prices
                           THEN [c \in Universe |->
                                   IF v[c] = 0 THEN << 1 >>
                                   ELSE << 1, 1 + v[c] >>]
                           ELSE [c \in {} |-> << >>]
           /\ k_ratio_df = IF sc.k THEN [c \in Universe |-> Cell(v[c])]
                           ELSE [c \in {} |-> NaN]
  /\ mg_pc = "input"
  /\ data_merged = EmptyFrame
  /\ cf_pc = "idle"
  /\ z_scores = [n \in {} |-> NaN]
  /\ data_with_factors = EmptyFrame
  /\ IdleSP

NextCF == merge_all_data \/ calculate_factors

SpecCF == InitCF /\ [][NextCF]_vars

\* ------------------------------------------------ inputs of sum_factors
Universe2 == {"A", "B"}

ZVals == {NaN, Int2Cell(-1), Int2Cell(2)}
ZValsFew == {NaN, Int2Cell(2)}

\* The column sets of the scored table, and the z-scores code A may have in
\* each; code B has the score 1 in every column.
ColumnSets ==
  { QualityCols \cup {"PBR", "DY"} \cup MomentumCols,
    QualityCols \cup MomentumCols,
    {"ROE", "GPA", "PER"} \cup MomentumCols,
    QualityCols \cup ValueAscCols \cup ValueDescCols \cup MomentumCols }

ZChoices(n) == IF n \in {"PCR", "PER", "PSR"} THEN ZValsFew ELSE ZVals

RawTable(cols) ==
  [index |-> Universe2,
   sec |-> [c \in Universe2 |-> "IT"],
   col |-> [n \in cols |-> [c \in Universe2 |-> Int2Cell(1)]]]

InitSum ==
  /\ IdleAux
  /\ fs_list = {}
  /\ fs_pc = "idle"
  /\ fs_pivot = EmptyPivot
  /\ IdleRaw
  /\ mg_pc = "idle"
  /\ \E cols \in ColumnSets :
       /\ data_merged = RawTable(cols)
       /\ \E za \in [ScoredCols(RawTable(cols)) -> ZVals] :
            /\ \A n \in DOMAIN za : za[n] \in ZChoices(n)
            /\ z_scores = [n \in DOMAIN za |->
                             [c \in Universe2 |->
                                IF c = "A" THEN za[n] ELSE Int2Cell(1)]]
  /\ cf_pc = "scored"
  /\ data_with_factors = EmptyFrame
  /\ IdleSP

NextSum == sum_factors

SpecSum == InitSum /\ [][NextSum]_vars


\* ===================================================== select_portfolio
factor_columns == {"z_quality", "z_value", "z_momentum"}

AllNull(series) == \A c \in DOMAIN series : IsNaN(series[c])

\* Variant of existing_factors that drops a factor as soon as one security
\* lacks it (isnull().any() for isnull().all()).
existing_factors_any(df) ==
  {f \in factor_columns \cap DOMAIN df.col :
     \A c \in DOMAIN df.col[f] : ~IsNaN(df.col[f][c])}

\* The factor columns that exist and are not NaN for every row.
existing_factors(df) ==
  {f \in factor_columns \cap DOMAIN df.col : ~AllNull(df.col[f])}

\* weights_map: 0.3 for each factor.
weights_map == [f \in factor_columns |-> << 3, 10 >>]

\* Variant of NormalizedWeights that keeps the nominal weights.
NominalWeights(active) == [f \in active |-> weights_map[f]]

\* active_weights divided by their total.
NormalizedWeights(active) ==
  LET active_weights == [f \in active |-> weights_map[f]]
      total_active_weight == FSum(active_weights, active)
  IN  [f \in active |-> FDiv(active_weights[f], total_active_weight)]

fillna0(x) == IF IsNaN(x) THEN Int2Cell(0) ELSE x

\* qvm = 0.0, then qvm += df[col].fillna(0) * weight for each active factor.
qvm(df, weights) ==
  [c \in df.index |->
     FSum([f \in DOMAIN weights |-> FMul(fillna0(df.col[f][c]), weights[f])],
          DOMAIN weights)]

\* np.where(qvm_rank <= top_n_stocks, 'Y', 'N')
InvestFlags(ranks, n) ==
  [c \in DOMAIN ranks |-> IF ~FLess(Int2Cell(n), ranks[c]) THEN "Y" ELSE "N"]

\* The whole call.  Without any usable factor the qvm and invest columns
\* are written into the table passed in, which is returned as it is, without
\* a qvm_rank column; otherwise a copy gets qvm, qvm_rank and invest.
select_portfolio(n) ==
  /\ sp_pc = "input"
  /\ top_n_stocks' = n
  /\ LET df == data_with_factors
         active == existing_factors(df)
     IN  IF active = {}
         THEN /\ sp_pc' = "no_factors"
              /\ normalized_weights' = normalized_weights
              /\ data_with_factors' = AddColumn(df, "qvm", NaNColumn(df.index))
              /\ final_portfolio_df' = AddColumn(df, "qvm", NaNColumn(df.index))
              /\ invest' = [c \in df.index |-> "N"]
         ELSE LET w == NormalizedWeights(active)
                  score == qvm(df, w)
                  qvm_rank == rank(score, FALSE)
              IN  /\ sp_pc' = "done"
                  /\ normalized_weights' = w
                  /\ data_with_factors' = df
                  /\ final_portfolio_df' =
                       AddColumn(AddColumn(df, "qvm", score), "qvm_rank", qvm_rank)
                  /\ invest' = InvestFlags(qvm_rank, n)
  /\ UNCHANGED << fsVars, rawVars, mg_pc, data_merged, cf_pc, z_scores, auxVars >>

\* ------------------------------------------- inputs of select_portfolio
\* Largest top_n_stocks of a call.
MaxTopN == 4

Universe3 == {"A", "B", "C"}

FVals == {NaN, Int2Cell(-1), Int2Cell(2)}
FValsA == FVals \cup {Int2Cell(1)}

RowsC == [factor_columns -> {NaN, Int2Cell(2)}]

FactorTables ==
  {[index |-> Universe3,
    sec |-> [c \in Universe3 |-> "IT"],
    col |-> [f \in factor_columns |->
               [c \in Universe3 |-> IF c = "A" THEN a[f] ELSE
                                    IF c = "B" THEN b[f] ELSE d[f]]]]
   : a \in [factor_columns -> FValsA], b \in [factor_columns -> FVals],
     d \in RowsC}

InitSP ==
  /\ IdleAux
  /\ fs_list = {}
  /\ fs_pc = "idle"
  /\ fs_pivot = EmptyPivot
  /\ IdleRaw
  /\ mg_pc = "idle"
  /\ data_merged = EmptyFrame
  /\ cf_pc = "idle"
  /\ z_scores = [n \in {} |-> NaN]
  /\ data_with_factors \in FactorTables
  /\ sp_pc = "input"
  /\ top_n_stocks = 0
  /\ normalized_weights = [n \in {} |-> NaN]
  /\ final_portfolio_df = EmptyFrame
  /\ invest = [c \in {} |-> ""]

NextSP == \E n \in 1..MaxTopN : select_portfolio(n)

SpecSP == InitSP /\ [][NextSP]_vars

\* ======================================================== the run block
\* The statements of the run block between two stage calls.  "start": any
\* empty raw table stops the run (st.stop), else process_financial_statements
\* is called.  After each stage the next one is called with what the stage
\* returned; an exception a stage raised ends the run ("raised"), and so does
\* sort_values('qvm_rank') on the table of the no-factor path, which has no
\* such column.  An empty merged table stops the run.
main ==
  /\ run_pc \in {"start", "fs", "value", "k_ratio", "merge", "factors",
                 "select"}
  /\ IF run_pc = "start"
     THEN /\ IF \/ ticker_list = {} \/ fs_list = {} \/ value_list = {}
                \/ \A c \in DOMAIN price_list : Len(price_list[c]) = 0
                \/ DOMAIN sector_list = {}
             THEN run_pc' = "stopped" /\ fs_pc' = fs_pc
             ELSE run_pc' = "fs" /\ fs_pc' = "input"
          /\ UNCHANGED << vp_pc, kr_pc, mg_pc, sp_pc >>
     ELSE IF run_pc = "fs"
     THEN /\ fs_pc # "input"
          /\ IF fs_pc = "KeyError"
             THEN run_pc' = "raised" /\ vp_pc' = vp_pc
             ELSE run_pc' = "value" /\ vp_pc' = "input"
          /\ UNCHANGED << fs_pc, kr_pc, mg_pc, sp_pc >>
     ELSE IF run_pc = "value"
     THEN /\ vp_pc # "input"
          /\ run_pc' = "k_ratio"
          /\ kr_pc' = "input"
          /\ UNCHANGED << fs_pc, vp_pc, mg_pc, sp_pc >>
     ELSE IF run_pc = "k_ratio"
     THEN /\ kr_pc # "input"
          /\ IF kr_pc = "ValueError"
             THEN run_pc' = "raised" /\ mg_pc' = mg_pc
             ELSE run_pc' = "merge" /\ mg_pc' = "input"
          /\ UNCHANGED << fs_pc, vp_pc, kr_pc, sp_pc >>
     ELSE IF run_pc = "merge"
     THEN /\ mg_pc # "input"
          /\ run_pc' = IF mg_pc = "empty" THEN "stopped" ELSE "factors"
          /\ UNCHANGED << fs_pc, vp_pc, kr_pc, mg_pc, sp_pc >>
     ELSE IF run_pc = "factors"
     THEN /\ cf_pc # "input"
          /\ run_pc' = "select"
          /\ sp_pc' = "input"
          /\ UNCHANGED << fs_pc, vp_pc, kr_pc, mg_pc >>
     ELSE /\ sp_pc # "input"
          /\ run_pc' = IF sp_pc = "no_factors" THEN "raised" ELSE "shown"
          /\ UNCHANGED << fs_pc, vp_pc, kr_pc, mg_pc, sp_pc >>
  /\ UNCHANGED << fs_list, fs_pivot, rawVars, data_merged, cf_pc, z_scores,
                  data_with_factors, top_n_stocks, normalized_weights,
                  final_portfolio_df, invest, ccVars, fill_method,
                  value_list >>

\* ------------------------------------------------ inputs of the run block
UniverseRun == {"A", "B"}

\* raw_data['fs_list']: empty, the five accounts of A and B over four
\* quarters, or a table without any 자본 row.
RunFs ==
  { {},
    UNION {Rows(c, a, Const(1..4, 1)) : c \in UniverseRun, a \in Accounts},
    UNION {Rows("A", a, Const(1..4, 1)) : a \in Accounts \ {"equity"}} }

\* raw_data['value_list']: empty, PBR and DY rows, or rows of a 지표 that
\* is no value column.
ValueRows(n, a, b) ==
  {[code |-> "A", metric |-> n, val |-> a],
   [code |-> "B", metric |-> n, val |-> b]}

RunValues ==
  { {}, ValueRows("PBR", 2, 1) \cup ValueRows("DY", 1, -1),
    ValueRows("EV", 1, 2) }

\* raw_data['price_list']: empty, every close NULL, two dates, one date, or
\* rows of an unlisted code only.
RunPrices ==
  { [c \in {} |-> << >>],
    [c \in {"A"} |-> << NoClose, NoClose >>],
    [c \in UniverseRun |-> IF c = "A" THEN << 1, 2 >> ELSE << 1 >>],
    [c \in {"A"} |-> << 1 >>],
    [c \in {"C"} |-> << 1, 2 >>] }

RunSectors == { [c \in {} |-> ""], [c \in {"A"} |-> "IT"] }

Init ==
  /\ fs_list \in RunFs
  /\ fs_pc = "idle"
  /\ fs_pivot = EmptyPivot
  /\ ticker_list \in {{}, UniverseRun}
  /\ sector_list \in RunSectors
  /\ price_list \in RunPrices
  /\ value_pivot = [n \in {} |-> NaN]
  /\ k_ratio_df = [c \in {} |-> NaN]
  /\ IdleCF
  /\ IdleSP
  /\ IdleCC
  /\ kr_pc = "idle"
  /\ fill_method \in {"pad", "none"}
  /\ value_list \in RunValues
  /\ vp_pc = "idle"
  /\ run_pc = "start"

Next ==
  \/ main
  \/ process_financial_statements
  \/ process_valuation_data
  \/ calculate_k_ratio
  \/ merge_all_data
  \/ calculate_factors
  \/ \E n \in 1..MaxTopN : select_portfolio(n)

Spec == Init /\ [][Next]_vars

\* ------------------------------------------------ inputs of col_clean
UniverseCC == {"A", "B", "C", "D"}

\* The cells of a metric column: undefined or one of MaxVal finite values.
CCVals == {NaN} \cup {Int2Cell(k) : k \in 1..MaxVal}

InitCC ==
  /\ fs_list = {}
  /\ fs_pc = "idle"
  /\ fs_pivot = EmptyPivot
  /\ IdleRaw
  /\ IdleCF
  /\ IdleSP
  /\ cc_series \in UNION {[D -> CCVals] : D \in SUBSET UniverseCC}
  /\ cc_asc \in BOOLEAN
  /\ cc_pc = "input"
  /\ cc_result = [c \in {} |-> NaN]
  /\ IdleKR
  /\ IdleRun

NextCC == col_clean_call

SpecCC == InitCC /\ [][NextCC]_vars

\* ------------------------------------------ inputs of calculate_k_ratio
\* Largest number of dates of a price history.
MaxDays == 4

Closes == {NoClose, 0, 1, 2}

\* Code A: any history of at most MaxDays rows.
HistA == UNION {[1..l -> Closes] : l \in 0..MaxDays}

\* Code B: no row, closes that are all NULL, a single close, a flat, a
\* zigzag and a rising history, a close of 0.
HistBs == {<< >>, << NoClose, NoClose >>, << 1 >>, << 1, 1, 1, 1 >>,
           << 1, 2, 1, 2 >>, << 1, 2, 2, 2 >>, << 1, 0, 1 >>}

\* The listed codes; code C has no row in kor_price.
TickerSets == {{"A", "B"}, {"A", "C"}, {"B", "C"}, {}}

InitKR ==
  /\ fs_list = {}
  /\ fs_pc = "idle"
  /\ fs_pivot = EmptyPivot
  /\ ticker_list \in TickerSets
  /\ sector_list = [c \in {} |-> ""]
  /\ \E a \in HistA, b \in HistBs :
       price_list = [c \in (IF b = << >> THEN {"A"} ELSE {"A", "B"}) |->
                       IF c = "A" THEN a ELSE b]
  /\ value_pivot = [n \in {} |-> NaN]
  /\ k_ratio_df = [c \in {} |-> NaN]
  /\ IdleCF
  /\ IdleSP
  /\ IdleCC
  /\ kr_pc = "input"
  /\ fill_method \in {"pad", "none"}
  /\ IdleRun

NextKR == calculate_k_ratio

SpecKR == InitKR /\ [][NextKR]_vars

\* ------------------------------------------------ properties, aggregator
RECURSIVE SetSum(_)
SetSum(G) ==
  IF G = {} THEN 0
  ELSE LET r == CHOOSE r \in G : TRUE IN r.val + SetSum(G \ {r})

\* The k rows of G with the latest period end dates.
Latest(G, k) ==
  CHOOSE S \in SUBSET G :
    /\ Cardinality(S) = k
    /\ \A r \in S, q \in G \ S : r.date > q.date

\* C1: for every (security, flow account) pair with at least 4 quarterly
\* observations the TTM value is the sum of exactly the 4 observations with
\* the latest period end dates; with fewer than 4 observations the TTM
\* value is undefined (NaN), never zero.
C1_TtmLatestFour ==
  fs_pc = "done" =>
    \A c \in DOMAIN fs_pivot : \A a \in FlowAccounts :
      LET G == FsGroup(fs_list, c, a)
      IN  IF Cardinality(G) >= 4
          THEN fs_pivot[c][a] = << SetSum(Latest(G, 4)), 1 >>
          ELSE fs_pivot[c][a] = NaN

\* A pair with 5 observations whose oldest value is dropped from the sum,
\* beside a pair of the same security with fewer than 4 observations.
C1_Witness ==
  /\ fs_pc = "done"
  /\ \E c \in DOMAIN fs_pivot : \E a, b \in FlowAccounts :
       LET G == FsGroup(fs_list, c, a)
       IN  /\ Cardinality(G) = 5
           /\ fs_pivot[c][a] # << SetSum(G), 1 >>
           /\ fs_pivot[c][a] # << 0, 1 >>
           /\ ~IsNaN(fs_pivot[c][a])
           /\ Cardinality(FsGroup(fs_list, c, b)) \in 1..3
           /\ IsNaN(fs_pivot[c][b])

RatioOperands ==
  {<< "ROE", "net_income", "equity" >>,
   << "GPA", "gross_profit", "assets" >>,
   << "CFO", "op_cash_flow", "assets" >>}

\* C2: each derived ratio (ROE, GPA, CFO) is undefined whenever either
\* operand TTM is undefined or the denominator TTM is exactly zero; a zero
\* denominator never yields a defined (finite or infinite) ratio.
C2_RatioUndefinedOnZeroDenominator ==
  fs_pc = "done" =>
    \A c \in DOMAIN fs_pivot : \A r \in RatioOperands :
      (\/ IsNaN(fs_pivot[c][r[2]])
       \/ IsNaN(fs_pivot[c][r[3]])
       \/ fs_pivot[c][r[3]] = << 0, 1 >>)
        => IsNaN(fs_pivot[c][r[1]])

\* What the division does on a zero denominator (pattern of the C2 failure).
C2_ZeroDenominatorGivesInf ==
  fs_pc = "done" =>
    \A c \in DOMAIN fs_pivot : \A r \in RatioOperands :
      (fs_pivot[c][r[3]] = << 0, 1 >> /\ ~IsNaN(fs_pivot[c][r[2]])
         /\ fs_pivot[c][r[2]] # << 0, 1 >>)
        => IsInf(fs_pivot[c][r[1]])

\* --------------------------------------------- properties, normaliser
Groups(df) == {df.sec[c] : c \in df.index}

\* Order of two defined z-scores << a, b, r, s >> = (a/b) / sqrt(r/s),
\* compared through their signed squares.
SignedSquare(z) ==
  Rat((IF z[1] < 0 THEN -1 ELSE 1) * z[1] * z[1] * z[4], z[2] * z[2] * z[3])

ZLeq(x, y) == ~FLess(SignedSquare(y), SignedSquare(x))

\* The codes of a group whose raw value is the best one for the direction:
\* the lowest for an ascending column, the highest for a descending one.
BestRaw(col, asc) ==
  {b \in NotNull(col) : \A j \in NotNull(col) :
     IF asc THEN ~FLess(col[j], col[b]) ELSE ~FLess(col[b], col[j])}

DistinctVals(col) == {col[c] : c \in NotNull(col)}

\* C8: with the ascending (lower-is-better) direction the lowest raw value
\* of a group receives the highest z-score of the group, with the
\* descending direction the highest raw value does; stated for the groups
\* with at least two different raw values.
C8_BestRawGetsHighestScore ==
  cf_pc = "done" =>
    \A n \in DOMAIN z_scores : \A g \in Groups(data_merged) :
      LET col == GroupColumn(data_merged, n, g)
      IN  Cardinality(DistinctVals(col)) >= 2 =>
            \A b \in BestRaw(col, AscOf(n)) :
              /\ ~IsNaN(z_scores[n][b])
              /\ \A j \in DOMAIN col :
                   ~IsNaN(z_scores[n][j]) => ZLeq(z_scores[n][j], z_scores[n][b])

\* Sum of the numerators, and of the squares, of defined z-scores that share
\* one radicand.
ZNumSum(z, idx) == FSum([c \in idx |-> << z[c][1], z[c][2] >>], idx)
ZSquareSum(z, idx) ==
  FSum([c \in idx |-> Rat(z[c][1] * z[c][1] * z[c][4],
                          z[c][2] * z[c][2] * z[c][3])], idx)

\* C9: for every sector group and metric the z-scores over the retained
\* (non-winsorized) members have mean 0 and standard deviation 1, and every
\* winsorized member has an undefined score; stated for the groups that
\* retain at least two different values.
C9_UnitScoresOverRetained ==
  cf_pc = "done" =>
    \A n \in DOMAIN z_scores : \A g \in Groups(data_merged) :
      LET col == GroupColumn(data_merged, n, g)
          kept == df_trim(col, Cutoff)
          idx == DOMAIN kept
      IN  /\ \A c \in DOMAIN col \ idx : IsNaN(z_scores[n][c])
          /\ Cardinality(DistinctVals(kept)) >= 2 =>
               /\ \A c \in idx : ~IsNaN(z_scores[n][c])
               /\ ZNumSum(z_scores[n], idx) = Int2Cell(0)
               /\ ZSquareSum(z_scores[n], idx) = Int2Cell(Cardinality(idx))

\* What the scoring yields instead (pattern of the C8 and C9 failures): no
\* member of any group has a defined z-score.
C9_EveryScoreUndefined ==
  cf_pc = "done" =>
    \A n \in DOMAIN z_scores : \A c \in data_merged.index :
      IsNaN(z_scores[n][c])

\* The table restricted to the codes of one sector group.
Restrict(df, g) ==
  [index |-> GroupIndex(df, g),
   sec |-> [c \in GroupIndex(df, g) |-> df.sec[c]],
   col |-> [n \in DOMAIN df.col |-> [c \in GroupIndex(df, g) |-> df.col[n][c]]]]

\* The table with every cell of the codes outside group g replaced by x.
Alter(df, g, x) ==
  [df EXCEPT !.col = [n \in DOMAIN df.col |->
     [c \in df.index |-> IF df.sec[c] = g THEN df.col[n][c] ELSE x]]]

AltCells == {NaN, Int2Cell(9), Int2Cell(-9)}

OtherUniverses(df, g) ==
  {Restrict(df, g)} \cup {Alter(df, g, x) : x \in AltCells}

OrderStat(series, k) ==
  LET d == NotNull(series)
      i == CHOOSE i \in d :
             /\ Cardinality({j \in d : FLess(series[j], series[i])}) < k
             /\ Cardinality({j \in d : ~FLess(series[i], series[j])}) >= k
  IN  series[i]

\* The quantile q = << a, b >> of the defined values by linear interpolation
\* between the order statistics around position (n - 1) * a / b.
QuantileOS(series, q) ==
  LET n == Cardinality(NotNull(series))
      lo == ((n - 1) * q[1]) \div q[2]
      fr == ((n - 1) * q[1]) % q[2]
  IN  IF n = 0 THEN NaN
      ELSE IF fr = 0 THEN OrderStat(series, lo + 1)
      ELSE FAdd(OrderStat(series, lo + 1),
                FMul(Rat(fr, q[2]),
                     FAdd(OrderStat(series, lo + 2),
                          FMul(Int2Cell(-1), OrderStat(series, lo + 1)))))

\* The entries of the call's series strictly between its two quantiles.
StrictlyInside(lowq, highq) ==
  {c \in NotNull(cc_series) :
     FLess(lowq, cc_series[c]) /\ FLess(cc_series[c], highq)}

\* C12: in col_clean a value is retained for ranking iff it lies strictly
\* between the series' quantile at the cutoff and its quantile at
\* 1 - cutoff; every value at or below the low quantile or at or above the
\* high quantile, and every undefined value, gets an undefined score.
C12_RetainedIffStrictlyBetweenQuantiles ==
  cc_pc \in {"early", "done"} =>
    \A inside \in {StrictlyInside(QuantileOS(cc_series, Cutoff),
                                  QuantileOS(cc_series, << 99, 100 >>))} :
      /\ cc_pc = "done" => DOMAIN cc_result = inside
      /\ \A c \in DOMAIN cc_series \ inside :
           c \in DOMAIN cc_result => IsNaN(cc_result[c])

\* A series with a retained value, a trimmed minimum, a trimmed maximum and
\* an undefined entry.
C12_Witness ==
  /\ cc_pc = "done"
  /\ DOMAIN cc_result # {}
  /\ \E c \in DOMAIN cc_series : IsNaN(cc_series[c])
  /\ \E lo, hi \in NotNull(cc_series) \ DOMAIN cc_result :
       \E c \in DOMAIN cc_result :
         FLess(cc_series[lo], cc_series[c]) /\ FLess(cc_series[c], cc_series[hi])


\* ------------------------------------------- properties, factor composer
FactorOf ==
  [f \in factor_columns |->
     IF f = "z_quality" THEN QualityCols
     ELSE IF f = "z_value" THEN ValueAscCols \cup ValueDescCols
     ELSE MomentumCols]

\* The constituent z-scores of factor f for code c.
ConstituentRow(f, c) ==
  [n \in FactorOf[f] \cap DOMAIN z_scores |-> z_scores[n][c]]

FactorCell(f, c) == data_with_factors.col[f][c]

\* The factors that are defined for at least one security of the universe.
DefinedSomewhere ==
  {f \in factor_columns :
     \E c \in data_with_factors.index : ~IsNaN(FactorCell(f, c))}

\* Sum over the factors F of weight * (factor score, 0 when undefined).
WeightedSum(c, F, weight) ==
  FSum([f \in F |-> FMul(weight[f], fillna0(FactorCell(f, c)))], F)

Composite(c) == final_portfolio_df.col["qvm"][c]
Rank(c) == final_portfolio_df.col["qvm_rank"][c]

\* C4 as stated: when no factor is undefined for the whole universe the
\* composite score is 0.3*Quality + 0.3*Value + 0.3*Momentum with every
\* undefined factor replaced by 0 (2.0, undefined, 1.0 gives 0.9).
C4_NominalWeightedSum ==
  (sp_pc = "done" /\ DefinedSomewhere = factor_columns) =>
    \A c \in final_portfolio_df.index :
      Composite(c) =
        WeightedSum(c, factor_columns, [f \in factor_columns |-> << 3, 10 >>])

\* C4 (amended): when no factor is undefined for the whole universe the
\* composite score is (Quality + Value + Momentum) / 3, the 0.3 weights
\* being rescaled to 1/3 each, with every undefined factor replaced by 0;
\* Quality=2.0, Value=undefined, Momentum=1.0 gives 1.0.
C4_ThirdsWeightedSum ==
  (sp_pc = "done" /\ DefinedSomewhere = factor_columns) =>
    \A c \in final_portfolio_df.index :
      /\ FMul(Int2Cell(3), Composite(c)) =
           WeightedSum(c, factor_columns, [f \in factor_columns |-> Int2Cell(1)])
      /\ (/\ FactorCell("z_quality", c) = Int2Cell(2)
          /\ IsNaN(FactorCell("z_value", c))
          /\ FactorCell("z_momentum", c) = Int2Cell(1))
           => Composite(c) = Int2Cell(1)

\* The security of the example, in a universe where Value is defined for
\* another security.
C4_Witness ==
  /\ sp_pc = "done"
  /\ DefinedSomewhere = factor_columns
  /\ \E c \in final_portfolio_df.index :
       /\ FactorCell("z_quality", c) = Int2Cell(2)
       /\ IsNaN(FactorCell("z_value", c))
       /\ FactorCell("z_momentum", c) = Int2Cell(1)
       /\ Composite(c) = Int2Cell(1)

\* C5: a factor undefined for every security of the universe is excluded
\* from the composite and the weights of the remaining factors are rescaled
\* to sum to 1; a factor defined for at least one security keeps its weight
\* in the sum of every security, also of those where it is undefined.
C5_UniverseWideExclusion ==
  /\ sp_pc = "no_factors" => DefinedSomewhere = {}
  /\ sp_pc = "done" =>
       /\ DefinedSomewhere # {}
       /\ DOMAIN normalized_weights = DefinedSomewhere
       /\ FSum(normalized_weights, DefinedSomewhere) = Int2Cell(1)
       /\ \A f \in DefinedSomewhere : FLess(Int2Cell(0), normalized_weights[f])
       /\ \A c \in final_portfolio_df.index :
            Composite(c) = WeightedSum(c, DefinedSomewhere, normalized_weights)

\* One factor undefined for the whole universe, and a security lacking a
\* factor that another security has.
C5_Witness ==
  /\ sp_pc = "done"
  /\ Cardinality(DefinedSomewhere) = 2
  /\ \E c \in final_portfolio_df.index : \E f \in DefinedSomewhere :
       /\ IsNaN(FactorCell(f, c))
       /\ \E g \in DefinedSomewhere : ~IsNaN(FactorCell(g, c))
       /\ Composite(c) # Int2Cell(0)

NoFactor(c) == \A f \in factor_columns : IsNaN(FactorCell(f, c))

\* C6: a security whose three factor scores are all undefined has an
\* undefined composite score and is ranked after every security with a
\* defined factor, so it is never flagged selected while such a security is
\* left unselected.
C6_NoFactorSecurityRanksLast ==
  sp_pc = "done" =>
    \A c \in final_portfolio_df.index : NoFactor(c) =>
      /\ IsNaN(Composite(c))
      /\ \A d \in final_portfolio_df.index : ~NoFactor(d) =>
           /\ FLess(Rank(d), Rank(c))
           /\ invest[c] = "Y" => invest[d] = "Y"

Min(a, b) == IF a < b THEN a ELSE b

\* C7: a security is flagged selected iff its descending composite-score
\* rank is within top-N, exactly min(N, M) of the M securities are flagged
\* and the ranks are a permutation of 1..M, also when composite scores are
\* equal.
C7_ExactlyTopNSelected ==
  sp_pc = "done" =>
    LET idx == final_portfolio_df.index
        M == Cardinality(idx)
    IN  /\ \A c \in idx :
             invest[c] = "Y" <=> ~FLess(Int2Cell(top_n_stocks), Rank(c))
        /\ Cardinality({c \in idx : invest[c] = "Y"}) = Min(top_n_stocks, M)
        /\ {Rank(c) : c \in idx} = {Int2Cell(k) : k \in 1..M}

\* ------------------------------------------- properties, trend strength
\* The defined closes of a code, in date order.
DefinedCloses(c) == SelectSeq(price_list[c], LAMBDA p : p # NoClose)

\* The listed codes with price data.
ListedWithPrices ==
  {c \in ticker_list \cap DOMAIN price_list : Len(DefinedCloses(c)) >= 1}

\* A code whose return series is empty or all-undefined (fewer than two
\* closes) or makes the regression fail (a close of 0 right after a positive
\* close: a cumulative log-return of -inf).
FailingCode(c) ==
  \/ Len(DefinedCloses(c)) < 2
  \/ \E d \in 2..Len(price_list[c]) :
       price_list[c][d - 1] > 0 /\ price_list[c][d] = 0

\* Histories of l rows that fail: all closes NULL, one close only, a close
\* of 0 after a positive one.
FailingHists(l) ==
  {h \in [1..l -> Closes] :
     \/ \A d \in 1..l : h[d] = NoClose
     \/ \A d \in 2..l : h[d] = NoClose
     \/ l >= 2 /\ h[1] = 1 /\ \A d \in 2..l : h[d] = 0}

\* C13: in calculate_k_ratio the per-security loop always runs to
\* completion: whenever a listed security has price data the call returns
\* the K-ratios, a security whose return series is empty, all-undefined or
\* makes the regression fail gets an undefined K-ratio, every listed
\* security with price data gets its own result, and the result of one
\* security is a possible result also when another security's history is
\* replaced by a failing one.
C13_LoopRunsToCompletion ==
  (kr_pc # "input" /\ ListedWithPrices # {}) =>
    /\ kr_pc = "done"
    /\ DOMAIN k_ratio_df = ListedWithPrices
    /\ \A c \in ListedWithPrices : FailingCode(c) => IsNaN(k_ratio_df[c])
    /\ \A c \in ListedWithPrices : \A d \in DOMAIN price_list \ {c} :
         \A h \in FailingHists(Len(price_list[d])) :
           \E k \in KRatioDicts(ticker_list, [price_list EXCEPT ![d] = h],
                                 fill_method) :
             k[c] = k_ratio_df[c]

\* What holds of the loop: the statement of C13 for the price tables of two
\* or more dates.
C13_FromTwoDates ==
  PivotDates(price_list) >= 2 => C13_LoopRunsToCompletion

\* ------------------------------------------------ properties, run block
\* A stage failure: a required raw table that is empty, or a stage that
\* returned no result or raised.
RawTableEmpty ==
  \/ ticker_list = {} \/ fs_list = {} \/ value_list = {}
  \/ DOMAIN sector_list = {}
  \/ \A c \in DOMAIN price_list : Len(price_list[c]) = 0

StageFailure ==
  \/ RawTableEmpty
  \/ fs_pc \in {"empty", "KeyError"}
  \/ vp_pc = "empty"
  \/ kr_pc \in {"empty", "ValueError"}
  \/ mg_pc = "empty"
  \/ cf_pc = "error"

\* C11: the run is a single linear pass in which any stage failure halts
\* the run before select_portfolio produces a selection flag: once a stage
\* has failed select_portfolio is never called and no invest flag exists,
\* so no failure is replaced by a defaulted column that lets the run reach
\* the selection.
C11_StageFailureHaltsBeforeSelect ==
  (run_pc # "idle" /\ StageFailure) =>
    /\ sp_pc = "idle"
    /\ DOMAIN invest = {}
    /\ run_pc \notin {"select", "shown"}

\* ------------------------------------------------ properties, frame effect
\* C14: every stage leaves its input tables unchanged on every path,
\* including the paths where a factor's columns are missing or no factor has
\* a defined score: a call of process_financial_statements leaves fs_list,
\* a call of process_valuation_data value_list, a call of calculate_k_ratio
\* the price and ticker tables,
\* a call of merge_all_data the raw and the processed tables, a call of
\* calculate_factors the merged table and a call of select_portfolio the
\* table with the factors as they were.
C14_StagesLeaveInputsUnchanged ==
  [][ /\ fs_pc = "input" => fs_list' = fs_list
      /\ vp_pc = "input" => value_list' = value_list
      /\ kr_pc = "input" =>
           << price_list, ticker_list >>' = << price_list, ticker_list >>
      /\ mg_pc = "input" =>
           << ticker_list, sector_list, price_list, fs_pivot, value_pivot,
              k_ratio_df >>' =
           << ticker_list, sector_list, price_list, fs_pivot, value_pivot,
              k_ratio_df >>
      /\ cf_pc = "input" => data_merged' = data_merged
      /\ sp_pc = "input" => data_with_factors' = data_with_factors ]_vars

====
